---------------------------- MODULE Spec2Model ----------------------------
(***************************************************************************)
(* Model of reorganize_css.py: the helper extract_between and the          *)
(* top-level pipeline (read the stylesheet, slice header / variables /     *)
(* base styles at fixed markers, assemble the output string, print).       *)
(*                                                                         *)
(* Strings are sequences of one-character strings.  Positions are the      *)
(* 0-based positions of Python; Slice(t, a, b) is t[a:b].                  *)
(***************************************************************************)
EXTENDS Integers, Sequences, FiniteSets

(***************************************************************************)
(* Bounds of the model.                                                    *)
(***************************************************************************)
MaxTextLen == 4
MaxMarkerLen == 2
MaxChunks == 5

(***************************************************************************)
(* Python string primitives used by the script.                            *)
(***************************************************************************)
\* The whitespace characters of the model's alphabets (str.strip() strips these).
Whitespace == {" ", "\n"}

\* t[a:b] for 0 <= a and b <= len(t); empty when b <= a.
Slice(t, a, b) == IF b <= a THEN <<>> ELSE SubSeq(t, a + 1, b)

\* str.index(sub, from): the lowest position >= from at which sub occurs in t.
\* Python raises ValueError when there is none; that outcome is the value -1
\* here and every caller tests it with Raised before using the position.
RECURSIVE index(_, _, _)
index(t, sub, from) ==
    IF from + Len(sub) > Len(t) THEN -1
    ELSE IF Slice(t, from, from + Len(sub)) = sub THEN from
    ELSE index(t, sub, from + 1)

Raised(i) == i < 0

RECURSIVE lstrip(_)
lstrip(s) == IF s # <<>> /\ Head(s) \in Whitespace THEN lstrip(Tail(s)) ELSE s

RECURSIVE rstrip(_)
rstrip(s) ==
    IF s # <<>> /\ s[Len(s)] \in Whitespace THEN rstrip(SubSeq(s, 1, Len(s) - 1)) ELSE s

\* str.strip()
strip(s) == rstrip(lstrip(s))

(***************************************************************************)
(* extract_between (lines 18-25).  The result is a string or None.         *)
(***************************************************************************)
None == [some |-> FALSE, val |-> <<>>]
Str(s) == [some |-> TRUE, val |-> s]

\* Mutant: the end marker is searched from start_idx, not from behind the match.
extract_between_overlap(text, start, end) ==
    LET start_idx == index(text, start, 0) IN
    IF Raised(start_idx) THEN None
    ELSE LET end_idx == index(text, end, start_idx) IN
         IF Raised(end_idx) THEN None
         ELSE Str(Slice(text, start_idx, end_idx + Len(end)))

\* Mutant: the slice stops at end_idx, leaving the end marker out.
extract_between_exclusive(text, start, end) ==
    LET start_idx == index(text, start, 0) IN
    IF Raised(start_idx) THEN None
    ELSE LET end_idx == index(text, end, start_idx + Len(start)) IN
         IF Raised(end_idx) THEN None
         ELSE Str(Slice(text, start_idx, end_idx))

\* Mutant: a missing end marker yields the rest of the text.
extract_between_rest(text, start, end) ==
    LET start_idx == index(text, start, 0) IN
    IF Raised(start_idx) THEN None
    ELSE LET end_idx == index(text, end, start_idx + Len(start)) IN
         IF Raised(end_idx) THEN Str(Slice(text, start_idx, Len(text)))
         ELSE Str(Slice(text, start_idx, end_idx + Len(end)))

\* Mutant: the result is stripped before it is returned.
extract_between_stripped(text, start, end) ==
    LET start_idx == index(text, start, 0) IN
    IF Raised(start_idx) THEN None
    ELSE LET end_idx == index(text, end, start_idx + Len(start)) IN
         IF Raised(end_idx) THEN None
         ELSE Str(strip(Slice(text, start_idx, end_idx + Len(end))))

extract_between(text, start, end) ==
    LET start_idx == index(text, start, 0) IN
    IF Raised(start_idx) THEN None
    ELSE LET end_idx == index(text, end, start_idx + Len(start)) IN
         IF Raised(end_idx) THEN None
         ELSE Str(Slice(text, start_idx, end_idx + Len(end)))

(***************************************************************************)
(* The markers and the literal block of the pipeline.  Each marker is      *)
(* abbreviated to its first character, one inner character and its last    *)
(* character, which keeps what the slicing depends on: ':root {' has an    *)
(* inner blank, no whitespace at either end and cannot overlap itself or   *)
(* the other two; the two section comments begin and end with '/', so      *)
(* each can share that one character with itself or the other.             *)
(***************************************************************************)
ROOT_MARKER == <<":", " ", "{">>
BASE_MARKER == <<"/", "b", "/">>
LAYOUT_MARKER == <<"/", "l", "/">>

\* The literal CSS that follows the third slot of the f-string: it opens with
\* a comment and ends with a newline.
LITERAL_BLOCK == <<"/", "x", "/", "\n">>

\* The "\n\n" between two parts of the f-string.
BLANK_LINE == <<"\n", "\n">>

(***************************************************************************)
(* State.                                                                  *)
(***************************************************************************)
VARIABLES
    \* extract_between applied to arbitrary arguments
    text, start, end, result, epc,
    \* the pipeline
    disk,               \* the input file as found on disk
    pc,                 \* the statement the script is at
    handle,             \* the file object f: "none", "open", "closed"
    bound,              \* the names the script has assigned so far
    content, header_end, header,
    variables_start, variables_end, variables_section,
    base_start, base_end, base_styles,
    output, printed

evars == <<text, start, end, result, epc>>
pvars == <<disk, pc, handle, bound, content, header_end, header,
           variables_start, variables_end, variables_section,
           base_start, base_end, base_styles, output, printed>>
vars == <<evars, pvars>>

(***************************************************************************)
(* Inputs.                                                                 *)
(***************************************************************************)
Alphabet == {"a", "b", " "}

SeqsUpTo(S, n) == UNION {[1..k -> S] : k \in 0..n}

ArgTexts == SeqsUpTo(Alphabet, MaxTextLen)
ArgMarkers == SeqsUpTo(Alphabet, MaxMarkerLen) \ {<<>>}

\* Stylesheets are built from chunks: the three markers, a blank, a newline,
\* an ordinary character, and the tail of a section comment (which lets two
\* section comments share a '/').
Chunks == {ROOT_MARKER, BASE_MARKER, LAYOUT_MARKER,
           <<" ">>, <<"\n">>, <<"x">>, <<"l", "/">>}

RECURSIVE Flatten(_)
Flatten(cs) == IF cs = <<>> THEN <<>> ELSE Head(cs) \o Flatten(Tail(cs))

Stylesheets == {Flatten(cs) : cs \in SeqsUpTo(Chunks, MaxChunks)}

Disks == {[kind |-> "missing", text |-> <<>>], [kind |-> "undecodable", text |-> <<>>]}
         \cup {[kind |-> "ok", text |-> t] : t \in Stylesheets}

EIdle ==
    /\ text = <<>> /\ start = <<>> /\ end = <<>> /\ result = None /\ epc = "idle"

PIdle ==
    /\ pc = "idle" /\ handle = "none" /\ bound = {}
    /\ content = <<>> /\ header_end = 0 /\ header = <<>>
    /\ variables_start = 0 /\ variables_end = 0 /\ variables_section = <<>>
    /\ base_start = 0 /\ base_end = 0 /\ base_styles = <<>>
    /\ output = <<>> /\ printed = FALSE

(***************************************************************************)
(* Specification SpecExtract: extract_between on every bounded input.      *)
(***************************************************************************)
InitExtract ==
    /\ text \in ArgTexts
    /\ start \in ArgMarkers
    /\ end \in ArgMarkers
    /\ result = None
    /\ epc = "call"
    /\ disk = [kind |-> "missing", text |-> <<>>]
    /\ PIdle

Call ==
    /\ epc = "call"
    /\ result' = extract_between(text, start, end)
    /\ epc' = "returned"
    /\ UNCHANGED <<text, start, end, pvars>>

NextExtract == Call

SpecExtract == InitExtract /\ [][NextExtract]_vars

(***************************************************************************)
(* Specification Spec: one run of the script, statement by statement.      *)
(* An uncaught exception ends the run at pc = "aborted"; the last          *)
(* statement ends it at pc = "done".                                       *)
(***************************************************************************)
Init ==
    /\ disk \in Disks
    /\ pc = "open"
    /\ handle = "none"
    /\ bound = {}
    /\ content = <<>> /\ header_end = 0 /\ header = <<>>
    /\ variables_start = 0 /\ variables_end = 0 /\ variables_section = <<>>
    /\ base_start = 0 /\ base_end = 0 /\ base_styles = <<>>
    /\ output = <<>> /\ printed = FALSE
    /\ EIdle

\* Line 14: open(css_file, 'r', encoding='utf-8') succeeds and binds f.
OpenOk ==
    /\ pc = "open"
    /\ disk.kind # "missing"
    /\ handle' = "open"
    /\ pc' = "read"
    /\ UNCHANGED <<disk, bound, content, header_end, header, variables_start,
                   variables_end, variables_section, base_start, base_end,
                   base_styles, output, printed, evars>>

\* Line 14: open raises (no such file); no file object was made.
OpenFail ==
    /\ pc = "open"
    /\ disk.kind = "missing"
    /\ pc' = "aborted"
    /\ UNCHANGED <<disk, handle, bound, content, header_end, header,
                   variables_start, variables_end, variables_section, base_start,
                   base_end, base_styles, output, printed, evars>>

\* Line 15: content = f.read()
ReadOk ==
    /\ pc = "read"
    /\ disk.kind = "ok"
    /\ content' = disk.text
    /\ bound' = bound \cup {"content"}
    /\ pc' = "exit_with"
    /\ UNCHANGED <<disk, handle, header_end, header, variables_start,
                   variables_end, variables_section, base_start, base_end,
                   base_styles, output, printed, evars>>

\* Line 15: f.read() raises (the bytes are not UTF-8); the exception leaves
\* the with block.
ReadFail ==
    /\ pc = "read"
    /\ disk.kind = "undecodable"
    /\ pc' = "exit_with_raising"
    /\ UNCHANGED <<disk, handle, bound, content, header_end, header,
                   variables_start, variables_end, variables_section, base_start,
                   base_end, base_styles, output, printed, evars>>

\* Mutant: f = open(...); content = f.read(); f.close() without a with block:
\* an exception in read skips the close.
ExitWithRaising_noclose ==
    /\ pc = "exit_with_raising"
    /\ pc' = "aborted"
    /\ UNCHANGED <<disk, handle, bound, content, header_end, header,
                   variables_start, variables_end, variables_section, base_start,
                   base_end, base_styles, output, printed, evars>>

\* Lines 14-15: the with block is left normally; f is closed.
ExitWith ==
    /\ pc = "exit_with"
    /\ handle' = "closed"
    /\ pc' = "header"
    /\ UNCHANGED <<disk, bound, content, header_end, header, variables_start,
                   variables_end, variables_section, base_start, base_end,
                   base_styles, output, printed, evars>>

\* Lines 14-15: the with block is left by an exception; f is closed and the
\* exception goes on to end the run.
ExitWithRaising ==
    /\ pc = "exit_with_raising"
    /\ handle' = "closed"
    /\ pc' = "aborted"
    /\ UNCHANGED <<disk, bound, content, header_end, header, variables_start,
                   variables_end, variables_section, base_start, base_end,
                   base_styles, output, printed, evars>>

\* Lines 28-29: header_end = content.index(':root {');
\* header = content[:header_end].strip()
ExtractHeader ==
    /\ pc = "header"
    /\ LET i == index(content, ROOT_MARKER, 0) IN
       IF Raised(i)
       THEN /\ pc' = "aborted"
            /\ UNCHANGED <<bound, header_end, header>>
       ELSE /\ header_end' = i
            /\ header' = strip(Slice(content, 0, i))
            /\ bound' = bound \cup {"header_end", "header"}
            /\ pc' = "variables"
    /\ UNCHANGED <<disk, handle, content, variables_start, variables_end,
                   variables_section, base_start, base_end, base_styles,
                   output, printed, evars>>

\* Mutant: the slice runs to the end of the end marker, as in extract_between.
ExtractVariables_inclusive ==
    /\ pc = "variables"
    /\ LET i == index(content, ROOT_MARKER, 0)
           j == index(content, BASE_MARKER, 0) IN
       IF Raised(i) \/ Raised(j)
       THEN /\ pc' = "aborted"
            /\ IF Raised(i)
               THEN UNCHANGED <<bound, variables_start>>
               ELSE /\ variables_start' = i
                    /\ bound' = bound \cup {"variables_start"}
            /\ UNCHANGED <<variables_end, variables_section>>
       ELSE /\ variables_start' = i
            /\ variables_end' = j
            /\ variables_section' = strip(Slice(content, i, j + Len(BASE_MARKER)))
            /\ bound' = bound \cup {"variables_start", "variables_end",
                                    "variables_section"}
            /\ pc' = "base"
    /\ UNCHANGED <<disk, handle, content, header_end, header, base_start,
                   base_end, base_styles, output, printed, evars>>

\* Lines 32-34: variables_start = content.index(':root {');
\* variables_end = content.index('/* ===== BASE STYLES ===== */');
\* variables_section = content[variables_start:variables_end].strip()
ExtractVariables ==
    /\ pc = "variables"
    /\ LET i == index(content, ROOT_MARKER, 0)
           j == index(content, BASE_MARKER, 0) IN
       IF Raised(i) \/ Raised(j)
       THEN /\ pc' = "aborted"
            /\ IF Raised(i)
               THEN UNCHANGED <<bound, variables_start>>
               ELSE /\ variables_start' = i
                    /\ bound' = bound \cup {"variables_start"}
            /\ UNCHANGED <<variables_end, variables_section>>
       ELSE /\ variables_start' = i
            /\ variables_end' = j
            /\ variables_section' = strip(Slice(content, i, j))
            /\ bound' = bound \cup {"variables_start", "variables_end",
                                    "variables_section"}
            /\ pc' = "base"
    /\ UNCHANGED <<disk, handle, content, header_end, header, base_start,
                   base_end, base_styles, output, printed, evars>>

\* Mutant: the end marker is looked up with str.find, which answers -1
\* instead of raising, and the run goes on.
ExtractBase_find ==
    /\ pc = "base"
    /\ LET i == index(content, BASE_MARKER, 0)
           j == index(content, LAYOUT_MARKER, 0) IN
       IF Raised(i)
       THEN /\ pc' = "aborted"
            /\ UNCHANGED <<bound, base_start, base_end, base_styles>>
       ELSE /\ base_start' = i
            /\ base_end' = j
            /\ base_styles' = strip(Slice(content, i,
                                  IF Raised(j) THEN Len(content) - 1 ELSE j))
            /\ bound' = bound \cup {"base_start", "base_end", "base_styles"}
            /\ pc' = "assemble"
    /\ UNCHANGED <<disk, handle, content, header_end, header, variables_start,
                   variables_end, variables_section, output, printed, evars>>

\* Lines 37-39: base_start = content.index('/* ===== BASE STYLES ===== */');
\* base_end = content.index('/* ===== LAYOUT COMPONENTS ===== */');
\* base_styles = content[base_start:base_end].strip()
ExtractBase ==
    /\ pc = "base"
    /\ LET i == index(content, BASE_MARKER, 0)
           j == index(content, LAYOUT_MARKER, 0) IN
       IF Raised(i) \/ Raised(j)
       THEN /\ pc' = "aborted"
            /\ IF Raised(i)
               THEN UNCHANGED <<bound, base_start>>
               ELSE /\ base_start' = i
                    /\ bound' = bound \cup {"base_start"}
            /\ UNCHANGED <<base_end, base_styles>>
       ELSE /\ base_start' = i
            /\ base_end' = j
            /\ base_styles' = strip(Slice(content, i, j))
            /\ bound' = bound \cup {"base_start", "base_end", "base_styles"}
            /\ pc' = "assemble"
    /\ UNCHANGED <<disk, handle, content, header_end, header, variables_start,
                   variables_end, variables_section, output, printed, evars>>

\* Mutant: the parts are joined by a single newline.
Assemble_single_newline ==
    /\ pc = "assemble"
    /\ output' = header \o <<"\n">> \o variables_section \o <<"\n">>
                 \o base_styles \o <<"\n">> \o LITERAL_BLOCK
    /\ bound' = bound \cup {"output"}
    /\ pc' = "print"
    /\ UNCHANGED <<disk, handle, content, header_end, header, variables_start,
                   variables_end, variables_section, base_start, base_end,
                   base_styles, printed, evars>>

\* Lines 45-215: output = f"""{header}\n\n{variables_section}\n\n{base_styles}\n\n<literal>"""
Assemble ==
    /\ pc = "assemble"
    /\ output' = header \o BLANK_LINE \o variables_section \o BLANK_LINE
                 \o base_styles \o BLANK_LINE \o LITERAL_BLOCK
    /\ bound' = bound \cup {"output"}
    /\ pc' = "print"
    /\ UNCHANGED <<disk, handle, content, header_end, header, variables_start,
                   variables_end, variables_section, base_start, base_end,
                   base_styles, printed, evars>>

\* Line 220: print("Script created. ...")
PrintStatus ==
    /\ pc = "print"
    /\ printed' = TRUE
    /\ pc' = "done"
    /\ UNCHANGED <<disk, handle, bound, content, header_end, header,
                   variables_start, variables_end, variables_section, base_start,
                   base_end, base_styles, output, evars>>

Next ==
    \/ OpenOk
    \/ OpenFail
    \/ ReadOk
    \/ ReadFail
    \/ ExitWith
    \/ ExitWithRaising
    \/ ExtractHeader
    \/ ExtractVariables
    \/ ExtractBase
    \/ Assemble
    \/ PrintStatus

Spec == Init /\ [][Next]_vars

(***************************************************************************)
(* Vocabulary of the properties, stated position by position rather than   *)
(* through index and Slice.                                                *)
(***************************************************************************)
\* m occurs in t at 0-based position k.
Occurs(t, m, k) ==
    /\ k \in 0..(Len(t) - Len(m))
    /\ \A n \in 1..Len(m) : t[k + n] = m[n]

\* k is the first position >= from at which m occurs in t.
FirstFrom(t, m, from, k) ==
    /\ k >= from
    /\ Occurs(t, m, k)
    /\ \A j \in from..(k - 1) : ~Occurs(t, m, j)

Present(t, m) == \E k \in 0..Len(t) : Occurs(t, m, k)

\* s is the run of t from position a up to, not including, position b.
IsRun(s, t, a, b) ==
    /\ Len(s) = b - a
    /\ \A n \in 1..Len(s) : s[n] = t[a + n]

StartsWith(s, m) == Occurs(s, m, 0)
EndsWith(s, m) == Occurs(s, m, Len(s) - Len(m))
Substring(s, t) == \E a \in 0..Len(t) : Occurs(t, s, a)

Returned == epc = "returned"

\* C1: a returned string is text[i .. j+len(end)), i the first occurrence of
\* start and j the first occurrence of end at a position >= i+len(start); the
\* start marker's own match is never taken for the end marker.
C1_ExtractIsFirstToFirst ==
    (Returned /\ result.some) =>
        \E i \in 0..Len(text), j \in 0..Len(text) :
            /\ FirstFrom(text, start, 0, i)
            /\ FirstFrom(text, end, i + Len(start), j)
            /\ IsRun(result.val, text, i, j + Len(end))

C1_Witness ==
    /\ Returned /\ result.some
    /\ start = end
    /\ Len(result.val) > 2 * Len(start)

\* C2 as stated: whenever the text contains both markers, a string is
\* returned that starts with start, ends with end and is a substring of text.
C2_Original ==
    (Returned /\ Present(text, start) /\ Present(text, end)) =>
        /\ result.some
        /\ StartsWith(result.val, start)
        /\ EndsWith(result.val, end)
        /\ Substring(result.val, text)

\* C2 amended: whenever the text contains the start marker and the end marker
\* occurs at or behind the end of the first start match, a string is returned
\* that starts with start, ends with end and is a substring of text.
C2_ExtractSucceeds ==
    (/\ Returned
     /\ \E i \in 0..Len(text), j \in 0..Len(text) :
            /\ FirstFrom(text, start, 0, i)
            /\ Occurs(text, end, j)
            /\ j >= i + Len(start)) =>
        /\ result.some
        /\ StartsWith(result.val, start)
        /\ EndsWith(result.val, end)
        /\ Substring(result.val, text)

C2_Witness ==
    /\ Returned /\ result.some
    /\ start # end
    /\ Len(result.val) > Len(start) + Len(end)
    /\ Len(result.val) < Len(text)

\* C3: when the start marker is absent, or the end marker does not occur
\* behind the first start match, the result is None, never a string.
C3_ExtractFails ==
    (/\ Returned
     /\ \/ ~Present(text, start)
        \/ \E i \in 0..Len(text) :
              /\ FirstFrom(text, start, 0, i)
              /\ \A j \in (i + Len(start))..Len(text) : ~Occurs(text, end, j)) =>
        result = None

C3_Witness ==
    /\ Returned /\ result = None
    /\ Present(text, start) /\ Present(text, end)
    /\ start # end

\* C4 as stated: a returned string neither begins nor ends with whitespace.
C4_Original ==
    (Returned /\ result.some /\ result.val # <<>>) =>
        /\ result.val[1] \notin Whitespace
        /\ result.val[Len(result.val)] \notin Whitespace

\* C4 amended: a returned string is not trimmed; it begins with whitespace
\* exactly when the start marker does and ends with whitespace exactly when
\* the end marker does.
C4_ExtractKeepsWhitespace ==
    (Returned /\ result.some) =>
        /\ result.val # <<>>
        /\ result.val[1] \in Whitespace <=> start[1] \in Whitespace
        /\ result.val[Len(result.val)] \in Whitespace <=> end[Len(end)] \in Whitespace

C4_Witness ==
    /\ Returned /\ result.some
    /\ result.val[1] \in Whitespace
    /\ result.val[Len(result.val)] \in Whitespace
    /\ Len(result.val) > 2

(***************************************************************************)
(* Properties of the pipeline (specification Spec).                        *)
(***************************************************************************)
\* s has no whitespace at either end.
NoOuterWhitespace(s) ==
    s = <<>> \/ (s[1] \notin Whitespace /\ s[Len(s)] \notin Whitespace)

\* s is the run t[a .. b) without the whitespace at its two ends.
TrimOf(s, t, a, b) ==
    /\ NoOuterWhitespace(s)
    /\ \E p \in a..b, q \in a..b :
          /\ p <= q
          /\ IsRun(s, t, p, q)
          /\ \A k \in (a + 1)..p : t[k] \in Whitespace
          /\ \A k \in (q + 1)..b : t[k] \in Whitespace

Extracting == pc \in {"header", "variables", "base"}
Terminal == pc \in {"done", "aborted"}

\* C5: the output is header, one blank line, variables, one blank line, base
\* styles, one blank line, then the literal block, in that order and with
\* nothing else between; no part adds whitespace of its own next to a
\* separator.
C5_AssembledLayout ==
    "output" \in bound =>
        LET h == Len(header)
            v == Len(variables_section)
            b == Len(base_styles) IN
        /\ Len(output) = h + v + b + 6 + Len(LITERAL_BLOCK)
        /\ IsRun(header, output, 0, h)
        /\ output[h + 1] = "\n" /\ output[h + 2] = "\n"
        /\ IsRun(variables_section, output, h + 2, h + 2 + v)
        /\ output[h + v + 3] = "\n" /\ output[h + v + 4] = "\n"
        /\ IsRun(base_styles, output, h + v + 4, h + v + 4 + b)
        /\ output[h + v + b + 5] = "\n" /\ output[h + v + b + 6] = "\n"
        /\ IsRun(LITERAL_BLOCK, output, h + v + b + 6, Len(output))
        /\ NoOuterWhitespace(header)
        /\ NoOuterWhitespace(variables_section)
        /\ NoOuterWhitespace(base_styles)

C5_Witness ==
    /\ "output" \in bound
    /\ header # <<>> /\ variables_section # <<>> /\ base_styles # <<>>
    /\ Len(content) > Len(header) + Len(variables_section) + Len(base_styles)
                      + Len(LAYOUT_MARKER)

\* C7: when one of the three markers is absent from the source text the run
\* ends in an error raised by an extraction step: the assembly is never
\* reached, no output is bound and the status message is not printed.
C7_MissingMarkerAborts ==
    (/\ disk.kind = "ok"
     /\ \/ ~Present(disk.text, ROOT_MARKER)
        \/ ~Present(disk.text, BASE_MARKER)
        \/ ~Present(disk.text, LAYOUT_MARKER)) =>
        /\ pc \notin {"assemble", "print", "done"}
        /\ "output" \notin bound
        /\ ~printed
        /\ pc = "aborted" => "content" \in bound /\ "base_styles" \notin bound

C7_Witness ==
    /\ pc = "aborted"
    /\ disk.kind = "ok"
    /\ Present(disk.text, ROOT_MARKER)
    /\ Present(disk.text, BASE_MARKER)
    /\ ~Present(disk.text, LAYOUT_MARKER)
    /\ "variables_section" \in bound

\* C8 as stated: each of the two Sections runs from the first occurrence of
\* its start marker to the first occurrence of its end marker behind that
\* start marker, so its end boundary never precedes its start boundary.
C8_Original ==
    /\ "variables_section" \in bound =>
          /\ FirstFrom(content, ROOT_MARKER, 0, variables_start)
          /\ FirstFrom(content, BASE_MARKER, variables_start + Len(ROOT_MARKER),
                       variables_end)
    /\ "base_styles" \in bound =>
          /\ FirstFrom(content, BASE_MARKER, 0, base_start)
          /\ FirstFrom(content, LAYOUT_MARKER, base_start + Len(BASE_MARKER),
                       base_end)

\* C9: when the first ':root {' precedes the first base-styles marker, the
\* variables Section starts with ':root {', does not contain the end marker
\* and is the text from the start marker up to the end marker, trimmed; the
\* header never contains ':root {'.
C9_VariablesExclusive ==
    /\ ("variables_section" \in bound
        /\ \E i \in 0..Len(content), j \in 0..Len(content) :
              /\ FirstFrom(content, ROOT_MARKER, 0, i)
              /\ FirstFrom(content, BASE_MARKER, 0, j)
              /\ i < j) =>
          /\ StartsWith(variables_section, ROOT_MARKER)
          /\ ~Substring(BASE_MARKER, variables_section)
          /\ \E i \in 0..Len(content), j \in 0..Len(content) :
                /\ FirstFrom(content, ROOT_MARKER, 0, i)
                /\ FirstFrom(content, BASE_MARKER, 0, j)
                /\ TrimOf(variables_section, content, i, j)
    /\ "header" \in bound => ~Substring(ROOT_MARKER, header)

C9_Witness ==
    /\ "variables_section" \in bound
    /\ variables_start < variables_end
    /\ variables_start > 0
    /\ Len(variables_section) < variables_end - variables_start
    /\ Len(variables_section) > Len(ROOT_MARKER)

\* C10: the input file object is closed before the first extraction step,
\* and no file object is open in any terminal state.
C10_HandleReleased ==
    (Extracting \/ Terminal) => handle # "open"

C10_Witness ==
    /\ pc = "aborted"
    /\ handle = "closed"
    /\ "content" \notin bound

=============================================================================
